---- MODULE Spec2Model ----
(***************************************************************************)
(* The catalog backend of coderxplr/ecom-be as a state machine.           *)
(*                                                                         *)
(* Two deployments exist and exclude each other: the flat-file variant    *)
(* (src/server.js: two arrays in memory, rewritten to data.json after     *)
(* every mutation) and the relational variant (src/unnamed/part_000: one  *)
(* jsonb document per row of the tables products and categories).  The    *)
(* variable variant is chosen once, at start-up.  productsData and        *)
(* categoriesData hold the two arrays of the flat-file variant, or the    *)
(* rows of the two tables of the relational variant.                      *)
(*                                                                         *)
(* A JSON value is [kind, text]: a string and its characters, or an       *)
(* object and its jsonb text.  A record (a JSON object of the store) is a *)
(* function from the keys it has to JSON values.                          *)
(***************************************************************************)
EXTENDS Integers, Sequences, FiniteSets, TLC

VARIABLES
  variant,         \* "flat" (src/server.js) or "rel" (src/unnamed/part_000)
  productsData,    \* the products: array (flat) or table rows (rel)
  categoriesData,  \* the categories: array (flat) or table rows (rel)
  dataFile,        \* data.json of the flat-file variant: [exists, text]
  req,             \* the request handled last
  res,             \* the response sent last
  inflight,        \* requests received whose handler has not run yet
  acked,           \* a mutating request has been answered 200/201/204
  snap,            \* the collections as acknowledged to the earlier of two
                   \* overlapping mutating requests (NoSnap otherwise)
  hits,            \* the rate limiter's counter of each source address
  early            \* requests of each address answered before the limiter

vars == <<variant, productsData, categoriesData, dataFile, req, res,
          inflight, acked, snap, hits, early>>

storeVars == <<productsData, categoriesData, dataFile>>
limiterVars == <<hits, early>>

----------------------------------------------------------------------------
(* Bounds of the model *)

\* records held by the two collections together
MaxRecords == 2
\* records held together in the runs with failing store calls
MaxFaultRecords == 1
\* records held together in the runs with overlapping requests
MaxConcurrentRecords == 2
\* requests in flight at a time
MaxInFlight == 2
\* requests of the busy address modelled beyond the limiter's cap
MaxOver == 2
\* requests per window of the second address
MaxOtherHits == 2
\* requests per window and address answered before the limiter
MaxEarly == 1
\* records held in the runs of the rate limiter
MaxLimiterRecords == 1

----------------------------------------------------------------------------
(* JSON values and records *)

Str(s) == [kind |-> "string", text |-> s]
Obj(t) == [kind |-> "object", text |-> t]

Collections == {"products", "categories"}

IdField(c) == IF c = "products" THEN "ProductID" ELSE "CategoryID"
Prefix(c) == IF c = "products" THEN "prod_" ELSE "cat_"

\* the keys of a record, in the order the serializers of the model emit them
Keys(c) == <<"name", "price", IdField(c)>>

\* Date.now(): the requests of a run fall into one millisecond, which is
\* the case in which two generated identifiers can collide
DateNow == {1}

\* Math.floor(Math.random() * 10000): two of the 10000 draws
Random == {0, 1}

\* generateId as called without its prefix
generateIdNoPrefix(prefix, now, rnd) == ToString(now) \o ToString(rnd)

generateId(prefix, now, rnd) == prefix \o ToString(now) \o ToString(rnd)

GenIds(c) == {generateId(Prefix(c), t, r) : t \in DateNow, r \in Random}

\* the identifier a client may put into a body: one the generator can give
BodyIds(c) == {generateId(Prefix(c), t, 0) : t \in DateNow}

FieldValues(c, k) ==
  IF k = "name" THEN {Str("a")}
  ELSE IF k = "price" THEN {Str("1"), Str("2")}
  ELSE {Str(i) : i \in BodyIds(c)}

AllFieldValues(c) == UNION {FieldValues(c, Keys(c)[i]) : i \in 1..Len(Keys(c))}

KeySet(c) == {Keys(c)[i] : i \in 1..Len(Keys(c))}

\* the JSON object bodies of the requests of the model: no key or one key
Bodies(c) ==
  UNION {{b \in [D -> AllFieldValues(c)] : \A k \in D : b[k] \in FieldValues(c, k)} :
         D \in {E \in SUBSET KeySet(c) : Cardinality(E) <= 1}}

EmptyBody == [k \in {} |-> Str("")]

\* the ids of the URL paths: every identifier the generator gives, and the
\* text of an empty JSON object, which no generated identifier equals
PathIds(c) == GenIds(c) \cup {"{}"}

\* { ...a, ...b }
Spread(a, b) ==
  [k \in (DOMAIN a) \cup (DOMAIN b) |-> IF k \in DOMAIN b THEN b[k] ELSE a[k]]

\* obj[key] = value
SetKey(obj, key, value) == Spread(obj, [k \in {key} |-> value])

\* arr.findIndex((p) => p[idField] === id): the first index, 0 for none
\* (=== holds of a string of the same characters only)
Matches(rec, idField, id) == idField \in DOMAIN rec /\ rec[idField] = Str(id)

findIndex(arr, idField, id) ==
  IF \E i \in 1..Len(arr) : Matches(arr[i], idField, id)
  THEN CHOOSE i \in 1..Len(arr) :
         /\ Matches(arr[i], idField, id)
         /\ \A j \in 1..(i - 1) : ~Matches(arr[j], idField, id)
  ELSE 0

\* arr.splice(index): without the count, everything from index on is removed
spliceToEnd(arr, index) == [i \in 1..(index - 1) |-> arr[i]]

\* arr.splice(index, 1)
splice(arr, index) ==
  [i \in 1..(Len(arr) - 1) |-> IF i < index THEN arr[i] ELSE arr[i + 1]]

----------------------------------------------------------------------------
(* Serialization *)

RECURSIVE Join(_, _)
Join(seq, sep) ==
  IF Len(seq) = 0 THEN ""
  ELSE IF Len(seq) = 1 THEN seq[1]
  ELSE seq[1] \o sep \o Join(Tail(seq), sep)

Quote(s) == "\"" \o s \o "\""

ValueText(v) == IF v.kind = "string" THEN Quote(v.text) ELSE v.text

Present(rec, keys) == SelectSeq(keys, LAMBDA k : k \in DOMAIN rec)

\* JSON.stringify(record, null, 2) at indentation ind
StringifyRecord(rec, keys, ind) ==
  LET ks == Present(rec, keys)
  IN IF Len(ks) = 0 THEN "{}"
     ELSE "{\n"
          \o Join([i \in 1..Len(ks) |->
                    ind \o "  " \o Quote(ks[i]) \o ": " \o ValueText(rec[ks[i]])],
                  ",\n")
          \o "\n" \o ind \o "}"

StringifyArray(arr, keys, ind) ==
  IF Len(arr) = 0 THEN "[]"
  ELSE "[\n"
       \o Join([i \in 1..Len(arr) |->
                 ind \o "  " \o StringifyRecord(arr[i], keys, ind \o "  ")],
               ",\n")
       \o "\n" \o ind \o "]"

\* JSON.stringify({ productsData, categoriesData }, null, 2)
JSONstringify(data) ==
  "{\n  \"productsData\": "
  \o StringifyArray(data.productsData, Keys("products"), "  ")
  \o ",\n  \"categoriesData\": "
  \o StringifyArray(data.categoriesData, Keys("categories"), "  ")
  \o "\n}"

\* the same document without white space, as a seed file written by hand
CompactRecord(rec, keys) ==
  LET ks == Present(rec, keys)
  IN "{" \o Join([i \in 1..Len(ks) |-> Quote(ks[i]) \o ":" \o ValueText(rec[ks[i]])], ",")
     \o "}"

CompactArray(arr, keys) ==
  "[" \o Join([i \in 1..Len(arr) |-> CompactRecord(arr[i], keys)], ",") \o "]"

CompactText(data) ==
  "{\"productsData\":" \o CompactArray(data.productsData, Keys("products"))
  \o ",\"categoriesData\":" \o CompactArray(data.categoriesData, Keys("categories"))
  \o "}"

\* the text jsonb gives for an object: keys by length, ", " and ": " between
JsonbText(obj, keys) ==
  LET ks == Present(obj, keys)
  IN "{" \o Join([i \in 1..Len(ks) |-> Quote(ks[i]) \o ": " \o ValueText(obj[ks[i]])], ", ")
     \o "}"

----------------------------------------------------------------------------
(* The data file of the flat-file variant *)

NoFile == [exists |-> FALSE, text |-> ""]
FileOf(text) == [exists |-> TRUE, text |-> text]

EmptyData == [productsData |-> <<>>, categoriesData |-> <<>>]

\* the documents a data.json found at start-up holds
SeedData ==
  {EmptyData,
   [productsData |-> <<[name |-> Str("a"),
                        ProductID |-> Str(generateId(Prefix("products"), 1, 0))]>>,
    categoriesData |-> <<>>]}

\* JSON.parse: the document a text is a serialization of
JSONparse(text) ==
  CHOOSE d \in SeedData : text \in {JSONstringify(d), CompactText(d)}

\* the files data.json can be at start-up: none, or a seed document, pretty
\* (written by an earlier run) or compact (written by hand)
SeedFiles ==
  {NoFile} \cup {FileOf(JSONstringify(d)) : d \in SeedData}
           \cup {FileOf(CompactText(d)) : d \in SeedData}

readData(file) == IF file.exists THEN JSONparse(file.text) ELSE EmptyData

\* a write of the collections as they were before the handler changed them
writeDataStale(data, outcome) ==
  IF outcome = "ok"
  THEN FileOf(JSONstringify([productsData |-> productsData,
                             categoriesData |-> categoriesData]))
  ELSE IF outcome = "openFails" THEN dataFile
  ELSE FileOf("")

\* fs.writeFileSync(dataFilePath, JSON.stringify(data, null, 2)): the file
\* written, or, when the call throws, the file as it was (the open failed)
\* or truncated (the write failed after the open)
WriteOutcomes == {"ok", "openFails", "writeFails"}

writeData(data, outcome) ==
  IF outcome = "ok" THEN FileOf(JSONstringify(data))
  ELSE IF outcome = "openFails" THEN dataFile
  ELSE FileOf("")

----------------------------------------------------------------------------
(* Requests and responses *)

Request(method, c, id, body) ==
  [method |-> method, coll |-> c, id |-> id, body |-> body]

\* by: the layer that wrote the response ("route": the route handler's own
\* code; "express": the framework's default error handler; "cors", "json",
\* "limiter": the middleware of that name)
Response(status, ctype, body, by) ==
  [status |-> status, ctype |-> ctype, body |-> body, by |-> by]

NoRequest == Request("none", "none", "", EmptyBody)
NoResponse == Response(0, "none", EmptyBody, "none")

Message(text) == [message |-> Str(text)]

\* the product routes' message copied into the category routes
NotFoundMessageCopied(c) == "Product not found"

NotFoundMessage(c) ==
  IF c = "products" THEN "Product not found" ELSE "Category not found"

\* the messages of the catch blocks of the relational variant
ErrorMessage(verb, c) ==
  "Error " \o verb \o " "
  \o (IF verb = "fetching"
      THEN (IF c = "products" THEN "products" ELSE "categories")
      ELSE (IF c = "products" THEN "product" ELSE "category"))

\* what a failed fs.writeFileSync throws
WriteError(outcome) ==
  IF outcome = "openFails" THEN "EACCES: permission denied, open"
  ELSE "ENOSPC: no space left on device, write"

Envs == {"development", "production"}

\* A route handler of the flat-file variant has no try/catch: what it throws
\* reaches the default error handler of the framework, which answers 500
\* with an HTML page: the error and its stack, or, in production, the
\* status text
ExpressError(env, err) ==
  Response(500, "html",
           Str(IF env = "production" THEN "Internal Server Error"
               ELSE "Error: " \o err),
           "express")

Coll(c) == IF c = "products" THEN productsData ELSE categoriesData

Data == [productsData |-> productsData, categoriesData |-> categoriesData]

With(data, c, arr) ==
  IF c = "products" THEN [data EXCEPT !.productsData = arr]
  ELSE [data EXCEPT !.categoriesData = arr]

Store(data) ==
  /\ productsData' = data.productsData
  /\ categoriesData' = data.categoriesData

----------------------------------------------------------------------------
(* The routes of the flat-file variant (src/server.js) *)

\* app.get("/products"), app.get("/categories")
FlatGet(c) ==
  /\ variant = "flat"
  /\ req' = Request("GET", c, "", EmptyBody)
  /\ res' = Response(200, "json", Coll(c), "route")
  /\ UNCHANGED storeVars

\* app.post("/products"), app.post("/categories")
FlatPost(c, body, now, rnd, outcome, env) ==
  LET newRecord == SetKey(body, IdField(c), Str(generateId(Prefix(c), now, rnd)))
      data == With(Data, c, Append(Coll(c), newRecord))
  IN /\ variant = "flat"
     /\ Store(data)
     /\ dataFile' = writeData(data, outcome)
     /\ req' = Request("POST", c, "", body)
     /\ res' = IF outcome = "ok"
               THEN Response(201, "json", newRecord, "route")
               ELSE ExpressError(env, WriteError(outcome))

\* app.put("/products/:id"), app.put("/categories/:id")
FlatPut(c, id, body, outcome, env) ==
  LET index == findIndex(Coll(c), IdField(c), id)
      data == With(Data, c, [Coll(c) EXCEPT ![index] = Spread(Coll(c)[index], body)])
  IN /\ variant = "flat"
     /\ req' = Request("PUT", c, id, body)
     /\ IF index # 0
        THEN /\ Store(data)
             /\ dataFile' = writeData(data, outcome)
             /\ res' = IF outcome = "ok"
                       THEN Response(200, "json", Coll(c)'[index], "route")
                       ELSE ExpressError(env, WriteError(outcome))
        ELSE /\ res' = Response(404, "json", Message(NotFoundMessage(c)), "route")
             /\ UNCHANGED storeVars

\* app.delete("/products/:id"), app.delete("/categories/:id")
FlatDelete(c, id, outcome, env) ==
  LET index == findIndex(Coll(c), IdField(c), id)
      data == With(Data, c, splice(Coll(c), index))
  IN /\ variant = "flat"
     /\ req' = Request("DELETE", c, id, EmptyBody)
     /\ IF index # 0
        THEN /\ Store(data)
             /\ dataFile' = writeData(data, outcome)
             /\ res' = IF outcome = "ok"
                       THEN Response(204, "none", EmptyBody, "route")
                       ELSE ExpressError(env, WriteError(outcome))
        ELSE /\ res' = Response(404, "json", Message(NotFoundMessage(c)), "route")
             /\ UNCHANGED storeVars

----------------------------------------------------------------------------
(* The routes of the relational variant (src/unnamed/part_000) *)

\* data->>'ProductID' = $2: the text of the value under the key (the
\* characters of a string, the jsonb text of an object) equals the id
RowMatches(row, idField, id) == idField \in DOMAIN row /\ row[idField].text = id

\* jsonb_set(data, '{key}', value)
jsonb_set(data, key, value) == SetKey(data, key, value)

\* the rows of SELECT data FROM <table>, in one of the orders the engine may
\* give them
Listings(rows) ==
  {[i \in 1..Len(rows) |-> rows[order[i]]] : order \in Permutations(1..Len(rows))}

\* app.get("/products"), app.get("/categories")
RelGet(c, rows, queryFails) ==
  /\ variant = "rel"
  /\ rows \in Listings(Coll(c))
  /\ req' = Request("GET", c, "", EmptyBody)
  /\ res' = IF queryFails
            THEN Response(500, "json", Message(ErrorMessage("fetching", c)), "route")
            ELSE Response(200, "json", rows, "route")
  /\ UNCHANGED storeVars

\* app.post("/products"), app.post("/categories")
RelPost(c, body, now, rnd, queryFails) ==
  LET newRecord == SetKey(body, IdField(c), Str(generateId(Prefix(c), now, rnd)))
  IN /\ variant = "rel"
     /\ req' = Request("POST", c, "", body)
     /\ IF queryFails
        THEN /\ res' = Response(500, "json", Message(ErrorMessage("creating", c)), "route")
             /\ UNCHANGED storeVars
        ELSE /\ Store(With(Data, c, Append(Coll(c), newRecord)))
             /\ res' = Response(201, "json", newRecord, "route")
             /\ UNCHANGED dataFile

\* UPDATE <table> SET data = jsonb_set(data, '{<IdField>}', $1)
\*   WHERE data->>'<IdField>' = $2 RETURNING data
\* with $1 = JSON.stringify(body) and $2 = id
UpdateRows(rows, idField, keys, id, body) ==
  [i \in 1..Len(rows) |->
     IF RowMatches(rows[i], idField, id)
     THEN jsonb_set(rows[i], idField, Obj(JsonbText(body, keys)))
     ELSE rows[i]]

Matching(rows, idField, id) ==
  {i \in 1..Len(rows) : RowMatches(rows[i], idField, id)}

\* app.put("/products/:id"), app.put("/categories/:id"); first: the row
\* the engine returns first
RelPut(c, id, body, first, queryFails) ==
  LET updated == UpdateRows(Coll(c), IdField(c), Keys(c), id, body)
      matching == Matching(Coll(c), IdField(c), id)
  IN /\ variant = "rel"
     /\ req' = Request("PUT", c, id, body)
     /\ IF queryFails
        THEN /\ res' = Response(500, "json", Message(ErrorMessage("updating", c)), "route")
             /\ UNCHANGED storeVars
        ELSE IF matching # {}
        THEN /\ first \in matching
             /\ Store(With(Data, c, updated))
             /\ res' = Response(200, "json", updated[first], "route")
             /\ UNCHANGED dataFile
        ELSE /\ res' = Response(404, "json", Message(NotFoundMessage(c)), "route")
             /\ UNCHANGED storeVars

\* DELETE FROM <table> WHERE data->>'<IdField>' = $1 RETURNING data
DeleteRows(rows, idField, id) ==
  SelectSeq(rows, LAMBDA row : ~RowMatches(row, idField, id))

\* app.delete("/products/:id"), app.delete("/categories/:id")
RelDelete(c, id, queryFails) ==
  LET matching == Matching(Coll(c), IdField(c), id)
  IN /\ variant = "rel"
     /\ req' = Request("DELETE", c, id, EmptyBody)
     /\ IF queryFails
        THEN /\ res' = Response(500, "json", Message(ErrorMessage("deleting", c)), "route")
             /\ UNCHANGED storeVars
        ELSE IF matching # {}
        THEN /\ Store(With(Data, c, DeleteRows(Coll(c), IdField(c), id)))
             /\ res' = Response(204, "none", EmptyBody, "route")
             /\ UNCHANGED dataFile
        ELSE /\ res' = Response(404, "json", Message(NotFoundMessage(c)), "route")
             /\ UNCHANGED storeVars

----------------------------------------------------------------------------
(* Start-up *)

IPs == {"ip1", "ip2"}

NoSnap == [phase |-> "none", data |-> EmptyData]

\* server.js line 31 loads the collections from data.json; the tables of the
\* relational variant start empty
Init ==
  /\ variant \in {"flat", "rel"}
  /\ dataFile \in (IF variant = "flat" THEN SeedFiles ELSE {NoFile})
  /\ productsData = readData(dataFile).productsData
  /\ categoriesData = readData(dataFile).categoriesData
  /\ req = NoRequest
  /\ res = NoResponse
  /\ inflight = 0
  /\ acked = FALSE
  /\ snap = NoSnap
  /\ hits = [ip \in IPs |-> 0]
  /\ early = [ip \in IPs |-> 0]

----------------------------------------------------------------------------
(* Requests.  A request is received (its body is read and parsed off the   *)
(* event loop), and later its handler runs.  A handler of the flat-file    *)
(* variant is synchronous code (findIndex, the mutation and                *)
(* fs.writeFileSync), so it runs to completion as one step; a handler of   *)
(* the relational variant awaits one SQL statement, which the database     *)
(* runs atomically.                                                        *)

Mutating(rq) == rq.method \in {"POST", "PUT", "DELETE"}

Succeeded(rq, rs) == Mutating(rq) /\ rs.status \in {200, 201, 204}

Room(n) == Len(productsData) + Len(categoriesData) < n

\* a request that meets no other: it is received and its handler runs
Direct(route) ==
  /\ inflight = 0
  /\ route
  /\ acked' = (acked \/ Succeeded(req', res'))
  /\ UNCHANGED <<variant, inflight, snap, limiterVars>>

\* a request arrives while others may still be waiting for their handler
Arrive ==
  /\ inflight < MaxInFlight
  /\ inflight' = inflight + 1
  /\ snap' = IF snap.phase = "first" THEN NoSnap ELSE snap
  /\ UNCHANGED <<variant, storeVars, req, res, acked, limiterVars>>

\* the handler of a waiting request runs.  snap: when a mutating request is
\* answered with success while another waits (the two are in flight at the
\* same time), phase "first" keeps the collections as they are after it; when
\* the handler that runs next is the waiting one and succeeds too, phase
\* "both" keeps that snapshot for comparison
Serve(route) ==
  /\ inflight > 0
  /\ inflight' = inflight - 1
  /\ route
  /\ acked' = (acked \/ Succeeded(req', res'))
  /\ snap' = IF Succeeded(req', res') /\ snap.phase = "first"
             THEN [snap EXCEPT !.phase = "both"]
             ELSE IF Succeeded(req', res') /\ inflight >= 2
             THEN [phase |-> "first", data |-> Data']
             ELSE NoSnap
  /\ UNCHANGED <<variant, limiterVars>>

----------------------------------------------------------------------------
(* Spec: requests one after the other, every store call succeeding *)

GetFlat == \E c \in Collections : Direct(FlatGet(c))

PostFlat ==
  \E c \in Collections, now \in DateNow, rnd \in Random :
    \E body \in Bodies(c) :
      Room(MaxRecords) /\ Direct(FlatPost(c, body, now, rnd, "ok", "production"))

PutFlat ==
  \E c \in Collections :
    \E id \in PathIds(c), body \in Bodies(c) :
      Direct(FlatPut(c, id, body, "ok", "production"))

DeleteFlat ==
  \E c \in Collections :
    \E id \in PathIds(c) : Direct(FlatDelete(c, id, "ok", "production"))

GetRel ==
  \E c \in Collections :
    \E rows \in Listings(Coll(c)) : Direct(RelGet(c, rows, FALSE))

PostRel ==
  \E c \in Collections, now \in DateNow, rnd \in Random :
    \E body \in Bodies(c) :
      Room(MaxRecords) /\ Direct(RelPost(c, body, now, rnd, FALSE))

\* the row returned first: any of the rows the statement updates
FirstRows(c, id) ==
  IF Matching(Coll(c), IdField(c), id) = {} THEN {0}
  ELSE Matching(Coll(c), IdField(c), id)

PutRel ==
  \E c \in Collections :
    \E id \in PathIds(c), body \in Bodies(c) :
      \E first \in FirstRows(c, id) : Direct(RelPut(c, id, body, first, FALSE))

DeleteRel ==
  \E c \in Collections :
    \E id \in PathIds(c) : Direct(RelDelete(c, id, FALSE))

Next ==
  \/ GetFlat
  \/ PostFlat
  \/ PutFlat
  \/ DeleteFlat
  \/ GetRel
  \/ PostRel
  \/ PutRel
  \/ DeleteRel

Spec == Init /\ [][Next]_vars

----------------------------------------------------------------------------
(* What the claims speak of *)

\* the record carries the identifier id, as the variant's lookup decides it
Carries(rec, c, id) ==
  IF variant = "flat" THEN Matches(rec, IdField(c), id)
  ELSE RowMatches(rec, IdField(c), id)

Carriers(arr, c, id) == {i \in 1..Len(arr) : Carries(arr[i], c, id)}

\* the collection after the step
CollAfter(c) == IF c = "products" THEN productsData' ELSE categoriesData'

Other(c) == IF c = "products" THEN "categories" ELSE "products"

HasPrefix(s, p) == Len(s) >= Len(p) /\ SubSeq(s, 1, Len(p)) = p

\* what a GET may answer of a collection that holds arr
AnswersOf(arr) == IF variant = "flat" THEN {arr} ELSE Listings(arr)

Range(seq) == {seq[i] : i \in 1..Len(seq)}

\* arr without the records at the indexes of drop, the others in order
Without(arr, drop) ==
  LET keep(i) == i \notin drop
      F[i \in 0..Len(arr)] ==
        IF i = 0 THEN <<>>
        ELSE IF keep(i) THEN Append(F[i - 1], arr[i]) ELSE F[i - 1]
  IN F[Len(arr)]

----------------------------------------------------------------------------
(* C1 *)

\* C1: a PUT that matches a stored record stores and returns a record in
\* which every key the body names has the body's value and every other key
\* of the record keeps the value it had (shallow merge), in both variants.
C1_ShallowMerge ==
  [][(req'.method = "PUT" /\ res'.status = 200) =>
       LET c == req'.coll
           body == req'.body
           old == Coll(c)
           new == CollAfter(c)
       IN /\ Len(new) = Len(old)
          /\ \E i \in Carriers(old, c, req'.id) :
               /\ new[i] = res'.body
               /\ DOMAIN new[i] = (DOMAIN old[i]) \cup (DOMAIN body)
               /\ \A k \in DOMAIN body : new[i][k] = body[k]
               /\ \A k \in (DOMAIN old[i]) \ (DOMAIN body) : new[i][k] = old[i][k]
    ]_vars

----------------------------------------------------------------------------
(* C2 *)

\* C2: no PUT changes the identifier of a stored record: after a PUT every
\* record of both collections carries the identifier it carried before, in
\* both variants and whatever the body holds.
C2_IdentifierKept ==
  [][req'.method = "PUT" =>
       \A c \in Collections :
         /\ Len(CollAfter(c)) = Len(Coll(c))
         /\ \A i \in 1..Len(Coll(c)) :
              /\ IdField(c) \in DOMAIN CollAfter(c)[i]
              /\ CollAfter(c)[i][IdField(c)] = Coll(c)[i][IdField(c)]
    ]_vars

----------------------------------------------------------------------------
(* C3 *)

\* C3 as stated: in every reachable state (two records may share an
\* identifier), a DELETE that matches answers 204, removes exactly one
\* record, leaves every other record unchanged, and a GET made directly
\* afterwards holds no record that carries the id.
C3_DeleteExactlyOne ==
  [][(req'.method = "DELETE" /\ res'.status = 204) =>
       LET c == req'.coll
           old == Coll(c)
           new == CollAfter(c)
       IN /\ \E i \in Carriers(old, c, req'.id) : new = Without(old, {i})
          /\ CollAfter(Other(c)) = Coll(Other(c))
          /\ \A i \in 1..Len(new) : ~Carries(new[i], c, req'.id)
    ]_vars

\* C3 as amended: a DELETE whose id matches a stored record answers 204 and
\* leaves every record that does not carry the id unchanged and in order (the
\* other collection included).  The flat-file variant removes exactly one
\* record, the first that carries the id, so the GET made directly afterwards
\* is free of the id exactly when no second record carried it; the relational
\* variant removes every record that carries the id, so that GET is free of
\* it.  A DELETE answers 204 exactly when a record carried the id.
C3_Delete ==
  [][req'.method = "DELETE" =>
       LET c == req'.coll
           old == Coll(c)
           new == CollAfter(c)
           hit == Carriers(old, c, req'.id)
       IN /\ (res'.status = 204) = (hit # {})
          /\ res'.status = 204 =>
               /\ CollAfter(Other(c)) = Coll(Other(c))
               /\ Without(new, Carriers(new, c, req'.id)) = Without(old, hit)
               /\ IF variant = "flat"
                  THEN /\ new = Without(old, {CHOOSE i \in hit : \A j \in hit : i <= j})
                       /\ (\A g \in AnswersOf(CollAfter(c)) : \A r \in Range(g) : ~Carries(r, c, req'.id))
                            = (Cardinality(hit) = 1)
                  ELSE /\ new = Without(old, hit)
                       /\ \A g \in AnswersOf(CollAfter(c)) : \A r \in Range(g) : ~Carries(r, c, req'.id)
    ]_vars

\* the case of C3: the flat-file variant has answered 204 to a DELETE and a
\* record that carries the id is still stored
C3_Witness ==
  /\ variant = "flat"
  /\ req.method = "DELETE"
  /\ res.status = 204
  /\ Carriers(Coll(req.coll), req.coll, req.id) # {}

----------------------------------------------------------------------------
(* C4 *)

\* C4: a PUT or a DELETE whose id no stored record of the collection carries
\* answers 404 with the JSON message "Product not found" (for categories
\* "Category not found") and leaves both collections and the data file as
\* they were.
C4_NotFound ==
  [][(req'.method \in {"PUT", "DELETE"}
        /\ Carriers(Coll(req'.coll), req'.coll, req'.id) = {}) =>
       /\ res'.status = 404
       /\ res'.ctype = "json"
       /\ res'.body = [message |-> Str(IF req'.coll = "products"
                                      THEN "Product not found"
                                      ELSE "Category not found")]
       /\ UNCHANGED storeVars
    ]_vars

\* the case of C4: a 404 answered to a PUT or DELETE on a collection that
\* holds a record
C4_Witness ==
  /\ req.method \in {"PUT", "DELETE"}
  /\ res.status = 404
  /\ Len(Coll(req.coll)) > 0

----------------------------------------------------------------------------
(* C5 *)

\* C5: a POST answers 201 with a record that has the keys of the body and
\* the identifier key, every other key with the body's value and the
\* identifier a non-empty string that starts with "prod_" (for categories
\* "cat_"); the record is appended to its collection, nothing else changes,
\* and every answer a GET of the collection can give directly afterwards
\* holds a record equal to the returned one.
C5_Create ==
  [][req'.method = "POST" =>
       LET c == req'.coll
           body == req'.body
           rec == res'.body
           idField == IF c = "products" THEN "ProductID" ELSE "CategoryID"
       IN /\ res'.status = 201
          /\ res'.ctype = "json"
          /\ DOMAIN rec = (DOMAIN body) \cup {idField}
          /\ \A k \in (DOMAIN body) \ {idField} : rec[k] = body[k]
          /\ rec[idField].kind = "string"
          /\ rec[idField].text # ""
          /\ HasPrefix(rec[idField].text, IF c = "products" THEN "prod_" ELSE "cat_")
          /\ CollAfter(c) = Append(Coll(c), rec)
          /\ CollAfter(Other(c)) = Coll(Other(c))
          /\ \A g \in AnswersOf(CollAfter(c)) : rec \in Range(g)
    ]_vars

\* the case of C5: a POST whose body names the identifier key has been
\* answered 201 and the collection holds a second record
C5_Witness ==
  /\ req.method = "POST"
  /\ res.status = 201
  /\ IdField(req.coll) \in DOMAIN req.body
  /\ Len(Coll(req.coll)) = 2

----------------------------------------------------------------------------
(* C8 *)

\* C8: in the relational variant, after a PUT that matches a stored record
\* the identifier of the stored and returned record is the id of the URL
\* path, so that a second PUT or a DELETE with the same id finds the record.
C8_IdentifierPinned ==
  [][(variant = "rel" /\ req'.method = "PUT" /\ res'.status = 200) =>
       LET c == req'.coll
       IN /\ res'.body[IdField(c)] = Str(req'.id)
          /\ res'.body \in Range(CollAfter(c))
          /\ \E i \in 1..Len(CollAfter(c)) :
               RowMatches(CollAfter(c)[i], IdField(c), req'.id)
    ]_vars

----------------------------------------------------------------------------
(* SpecFaults: requests one after the other, store calls that may fail *)

\* the bodies of the runs with failing store calls
FaultBodies(c) == {b \in Bodies(c) : DOMAIN b \subseteq {"name"}}

FaultyPostFlat ==
  \E c \in Collections, now \in DateNow, outcome \in WriteOutcomes, env \in Envs :
    \E body \in FaultBodies(c) :
      Room(MaxFaultRecords) /\ Direct(FlatPost(c, body, now, 0, outcome, env))

FaultyPutFlat ==
  \E c \in Collections, outcome \in WriteOutcomes, env \in Envs :
    \E id \in PathIds(c), body \in FaultBodies(c) :
      Direct(FlatPut(c, id, body, outcome, env))

FaultyDeleteFlat ==
  \E c \in Collections, outcome \in WriteOutcomes, env \in Envs :
    \E id \in PathIds(c) : Direct(FlatDelete(c, id, outcome, env))

FaultyGetRel ==
  \E c \in Collections, queryFails \in BOOLEAN :
    \E rows \in Listings(Coll(c)) : Direct(RelGet(c, rows, queryFails))

FaultyPostRel ==
  \E c \in Collections, now \in DateNow, queryFails \in BOOLEAN :
    \E body \in FaultBodies(c) :
      Room(MaxFaultRecords) /\ Direct(RelPost(c, body, now, 0, queryFails))

FaultyPutRel ==
  \E c \in Collections, queryFails \in BOOLEAN :
    \E id \in PathIds(c), body \in FaultBodies(c) :
      \E first \in FirstRows(c, id) : Direct(RelPut(c, id, body, first, queryFails))

FaultyDeleteRel ==
  \E c \in Collections, queryFails \in BOOLEAN :
    \E id \in PathIds(c) : Direct(RelDelete(c, id, queryFails))

NextFaults ==
  \/ GetFlat
  \/ FaultyPostFlat
  \/ FaultyPutFlat
  \/ FaultyDeleteFlat
  \/ FaultyGetRel
  \/ FaultyPostRel
  \/ FaultyPutRel
  \/ FaultyDeleteRel

SpecFaults == Init /\ [][NextFaults]_vars

----------------------------------------------------------------------------
(* C7 *)

Verbs == {"fetching", "creating", "updating", "deleting"}

\* C7: whenever a request is answered 500, the response was written by the
\* route handler itself (the failure was caught inside it) and is one of the
\* generic JSON messages, which do not hold the underlying error; in both
\* variants.
C7_CaughtInRoute ==
  res.status = 500 =>
    /\ res.by = "route"
    /\ res.ctype = "json"
    /\ res.body \in {[message |-> Str(ErrorMessage(v, c))] : v \in Verbs, c \in Collections}

----------------------------------------------------------------------------
(* C10 *)

\* C10: in the flat-file variant, between handlers and once a mutating
\* request has been answered 200, 201 or 204, the data file holds the
\* serialization of the two collections in memory; a GET and a request
\* answered 404 do not write the file.
C10_FileInSync ==
  [][/\ (variant = "flat" /\ acked') => dataFile' = FileOf(JSONstringify(Data'))
     /\ (variant = "flat" /\ (req'.method = "GET" \/ res'.status = 404)) =>
          dataFile' = dataFile
    ]_vars

----------------------------------------------------------------------------
(* SpecConcurrent: the flat-file variant with requests in flight together *)

\* the bodies of the runs with overlapping requests
ConcurrentBodies(c) == {b \in Bodies(c) : DOMAIN b \subseteq {"price"}}

ServeGetFlat == \E c \in Collections : Serve(FlatGet(c))

ServePostFlat ==
  \E c \in Collections, now \in DateNow, rnd \in Random :
    \E body \in ConcurrentBodies(c) :
      Room(MaxConcurrentRecords)
        /\ Serve(FlatPost(c, body, now, rnd, "ok", "production"))

ServePutFlat ==
  \E c \in Collections :
    \E id \in PathIds(c), body \in ConcurrentBodies(c) :
      Serve(FlatPut(c, id, body, "ok", "production"))

ServeDeleteFlat ==
  \E c \in Collections :
    \E id \in PathIds(c) : Serve(FlatDelete(c, id, "ok", "production"))

NextConcurrent ==
  \/ Arrive
  \/ ServeGetFlat
  \/ ServePostFlat
  \/ ServePutFlat
  \/ ServeDeleteFlat

InitFlat == Init /\ variant = "flat"

SpecConcurrent == InitFlat /\ [][NextConcurrent]_vars

----------------------------------------------------------------------------
(* C9 *)

\* the collections data after the change of the request rq, answered rs
Effect(rq, rs, data) ==
  LET arr == IF rq.coll = "products" THEN data.productsData ELSE data.categoriesData
      index == findIndex(arr, IdField(rq.coll), rq.id)
  IN IF rq.method = "POST" THEN With(data, rq.coll, Append(arr, rs.body))
     ELSE IF rq.method = "PUT"
     THEN With(data, rq.coll, [arr EXCEPT ![index] = Spread(arr[index], rq.body)])
     ELSE With(data, rq.coll, splice(arr, index))

\* an update is lost: the collections in memory are not those acknowledged
\* to the earlier request with the change of the later one, or the data file
\* is not their serialization
LostUpdate ==
  \/ Data # Effect(req, res, snap.data)
  \/ dataFile # FileOf(JSONstringify(Data))

\* C9 as stated, of the runs of the model: two mutating requests that were in
\* flight at the same time have both been answered with success, and the data
\* file or the collections in memory lack the change of one of them.
C9_LostUpdate == (variant = "flat" /\ snap.phase = "both") => LostUpdate

\* C9 as amended: the handlers of the flat-file variant run to completion one
\* at a time, each on the collections in memory as the handler before left
\* them, and each writes both collections whole.  Once two mutating requests
\* that were in flight at the same time have both been answered with
\* success, the collections in memory hold the change of the earlier and, on
\* top of it, the change of the later, and the data file is their
\* serialization: no update is lost.
C9_NoLostUpdate == (variant = "flat" /\ snap.phase = "both") => ~LostUpdate

\* the case of C9: two POSTs were in flight at the same time and both have
\* been answered 201
C9_Witness ==
  /\ variant = "flat"
  /\ snap.phase = "both"
  /\ req.method = "POST"
  /\ res.status = 201
  /\ Len(productsData) + Len(categoriesData)
       = Len(snap.data.productsData) + Len(snap.data.categoriesData) + 1

----------------------------------------------------------------------------
(* SpecLimiter: the middleware in front of the routes.  Both variants      *)
(* install cors(), express.json() and the rate limiter, in this order.     *)
(* cors() answers a preflight request itself, and express.json() hands a   *)
(* body that does not parse to the error handler: neither request reaches  *)
(* the limiter.  The limiter counts every request that reaches it, per     *)
(* source address and window, and rejects the requests counted beyond max. *)

\* max: 100
max == 100

\* message: "Too many requests from this IP, please try again later."
message == "Too many requests from this IP, please try again later."

\* a limiter that rejects the request that reaches the cap
limiterOffByOne(count) == count + 1 < max

\* the limiter's decision on a request of an address counted count times in
\* the window: the request is counted, and passes unless the count exceeds max
limiter(count) == count + 1 <= max

\* requests per window the model lets an address make to the limiter
Budget(ip) == IF ip = "ip1" THEN max + MaxOver ELSE MaxOtherHits

Count(counter, ip) == [counter EXCEPT ![ip] = @ + 1]

\* the routes of the runs of the limiter: the product routes, empty bodies
LimiterRoute ==
  \E now \in DateNow :
    \/ FlatGet("products")
    \/ Room(MaxLimiterRecords)
         /\ FlatPost("products", EmptyBody, now, 0, "ok", "production")
    \/ FlatDelete("products", generateId(Prefix("products"), now, 0), "ok", "production")
    \/ RelGet("products", productsData, FALSE)
    \/ Room(MaxLimiterRecords) /\ RelPost("products", EmptyBody, now, 0, FALSE)
    \/ RelDelete("products", generateId(Prefix("products"), now, 0), FALSE)

\* app.use(cors()): an OPTIONS preflight request is answered 204 by cors()
Preflight(ip) ==
  /\ early[ip] < MaxEarly
  /\ early' = Count(early, ip)
  /\ req' = Request("OPTIONS", "products", "", EmptyBody)
  /\ res' = Response(204, "none", EmptyBody, "cors")
  /\ UNCHANGED <<variant, storeVars, inflight, acked, snap, hits>>

\* app.use(express.json()): a body that is not JSON is answered 400
Malformed(ip) ==
  /\ early[ip] < MaxEarly
  /\ early' = Count(early, ip)
  /\ req' = Request("POST", "products", "", EmptyBody)
  /\ res' = Response(400, "html", Str("SyntaxError"), "json")
  /\ UNCHANGED <<variant, storeVars, inflight, acked, snap, hits>>

\* app.use(limiter): the request passes and its route handler runs
Admitted(ip) ==
  /\ hits[ip] < Budget(ip)
  /\ limiter(hits[ip])
  /\ hits' = Count(hits, ip)
  /\ LimiterRoute
  /\ acked' = (acked \/ Succeeded(req', res'))
  /\ UNCHANGED <<variant, inflight, snap, early>>

\* app.use(limiter): the request is rejected
Limited(ip) ==
  /\ hits[ip] < Budget(ip)
  /\ ~limiter(hits[ip])
  /\ hits' = Count(hits, ip)
  /\ \E method \in {"GET", "POST", "DELETE"} :
       req' = Request(method, "products", "", EmptyBody)
  /\ res' = Response(429, "text", Str(message), "limiter")
  /\ UNCHANGED <<variant, storeVars, inflight, acked, snap, early>>

\* windowMs: the window of the address ends
WindowEnds(ip) ==
  /\ hits[ip] > 0 \/ early[ip] > 0
  /\ hits' = [hits EXCEPT ![ip] = 0]
  /\ early' = [early EXCEPT ![ip] = 0]
  /\ UNCHANGED <<variant, storeVars, req, res, inflight, acked, snap>>

NextLimiter ==
  \E ip \in IPs :
    \/ Preflight(ip)
    \/ Malformed(ip)
    \/ Admitted(ip)
    \/ Limited(ip)
    \/ WindowEnds(ip)

\* a fresh deployment: no data file, no rows
InitFresh == Init /\ dataFile = NoFile

SpecLimiter == InitFresh /\ [][NextLimiter]_vars

----------------------------------------------------------------------------
(* C6 *)

\* the step is a request of the address ip
RequestOf(ip) == hits'[ip] + early'[ip] = hits[ip] + early[ip] + 1

Rejected(rs) ==
  /\ rs.status = 429
  /\ rs.body = Str("Too many requests from this IP, please try again later.")

====
